---- MODULE Spec2Model ----
(***************************************************************************)
(* ExpressionMatcher (src/match.py): a boolean expression over identifiers *)
(* is parsed with the host grammar, rewritten node by node into membership *)
(* tests on a collection named items, and evaluated against collections.   *)
(*                                                                         *)
(* Texts are sequences of one-character strings, so that columns, lexing   *)
(* and substring containment are computed and not assumed.                 *)
(***************************************************************************)
EXTENDS Integers, Sequences, FiniteSets, TLC

VARIABLES pc, input, expression, tree, error, raisedAt, items, result, rendering,
          first, dm

vars == <<pc, input, expression, tree, error, raisedAt, items, result, rendering,
          first, dm>>

None == [kind |-> "None"]

(***************************************************************************)
(* Bounds of the model.                                                    *)
(***************************************************************************)
\* largest number of elements of an items collection that is a set or a list
MaxItems == 2
\* largest number of not/and/or/parenthesis combinators wrapped around an operand
MaxOps == 1

(***************************************************************************)
(* Characters and the words the inputs are made of.                        *)
(***************************************************************************)
Letters == {"a", "b", "d", "e", "f", "g", "h", "i", "m", "n", "o", "p", "r",
            "s", "t", "x", "y", "z"}
Digits == {"0", "1", "2", "3", "4", "5", "6", "7", "8", "9"}
Operators == {"(", ")", "+", "-", "<", ".", "="}
Quote == "'"

FOO == <<"f", "o", "o">>
BAR == <<"b", "a", "r">>
ITEMS == <<"i", "t", "e", "m", "s">>
EMPTY == <<"e", "m", "p", "t", "y">>
ANYTHING == <<"a", "n", "y", "t", "h", "i", "n", "g">>
AND == <<"a", "n", "d">>
OR == <<"o", "r">>
NOT == <<"n", "o", "t">>

Keywords == {AND, OR, NOT}

(***************************************************************************)
(* ast.parse(expression, mode="eval"): the tokenizer.                      *)
(***************************************************************************)
RECURSIVE ScanWhile(_, _, _)
ScanWhile(s, i, class) ==
    IF i <= Len(s) /\ s[i] \in class THEN ScanWhile(s, i + 1, class) ELSE i

RECURSIVE ScanUntil(_, _, _)
ScanUntil(s, i, c) ==
    IF i <= Len(s) /\ s[i] # c THEN ScanUntil(s, i + 1, c) ELSE i

DigitVal(c) ==
    CASE c = "0" -> 0 [] c = "1" -> 1 [] c = "2" -> 2 [] c = "3" -> 3
      [] c = "4" -> 4 [] c = "5" -> 5 [] c = "6" -> 6 [] c = "7" -> 7
      [] c = "8" -> 8 [] c = "9" -> 9

DigitChar(n) == <<"0", "1", "2", "3", "4", "5", "6", "7", "8", "9">>[n + 1]

\* int(w) for a decimal literal w
RECURSIVE NumValue(_)
NumValue(w) ==
    IF Len(w) = 0 THEN 0
    ELSE 10 * NumValue(SubSeq(w, 1, Len(w) - 1)) + DigitVal(w[Len(w)])

\* str(n) for a non-negative integer n
RECURSIVE StrOfInt(_)
StrOfInt(n) ==
    IF n < 10 THEN <<DigitChar(n)>>
    ELSE StrOfInt(n \div 10) \o <<DigitChar(n % 10)>>

\* a token: its kind, its text, and its 0-based [col, end) span in the line
Tok(kind, text, col, end) == [kind |-> kind, text |-> text, col |-> col, end |-> end]

RECURSIVE Tokenize(_, _)
Tokenize(s, i) ==
    IF i > Len(s) THEN <<>>
    ELSE IF s[i] = " " THEN Tokenize(s, i + 1)
    ELSE IF s[i] \in Letters THEN
        LET j == ScanWhile(s, i, Letters \cup Digits)
            w == SubSeq(s, i, j - 1)
        IN  <<Tok(IF w \in Keywords THEN "KEYWORD" ELSE "NAME", w, i - 1, j - 1)>>
                \o Tokenize(s, j)
    ELSE IF s[i] \in Digits THEN
        LET j == ScanWhile(s, i, Digits)
            w == SubSeq(s, i, j - 1)
        IN  IF \/ (j <= Len(s) /\ s[j] \in Letters)
               \/ (Len(w) > 1 /\ w[1] = "0" /\ NumValue(w) # 0)
            THEN <<Tok("ERROR", w, i - 1, j - 1)>>
            ELSE <<Tok("NUMBER", w, i - 1, j - 1)>> \o Tokenize(s, j)
    ELSE IF s[i] = Quote THEN
        LET j == ScanUntil(s, i + 1, Quote)
        IN  IF j > Len(s) THEN <<Tok("ERROR", <<>>, i - 1, j - 1)>>
            ELSE <<Tok("STRING", SubSeq(s, i + 1, j - 1), i - 1, j)>> \o Tokenize(s, j + 1)
    ELSE IF s[i] \in Operators THEN
        <<Tok("OP", <<s[i]>>, i - 1, i)>> \o Tokenize(s, i + 1)
    ELSE <<Tok("ERROR", <<s[i]>>, i - 1, i)>>

\* a line that starts with a blank is an unexpected indent
Lex(s) ==
    IF Len(s) > 0 /\ s[1] = " " THEN <<Tok("ERROR", <<>>, 0, 0)>> ELSE Tokenize(s, 1)

(***************************************************************************)
(* ast.parse(expression, mode="eval"): the grammar.  Every node carries    *)
(* the position attributes the parser gives it; a parenthesised expression *)
(* keeps the position of what is inside the parentheses, while the node    *)
(* that encloses it starts (or ends) at the parenthesis.                   *)
(***************************************************************************)
Pos(c, e) == [lineno |-> 1, col_offset |-> c, end_lineno |-> 1, end_col_offset |-> e]

NameNode(id, c, e) == [type |-> "Name", id |-> id, ctx |-> "Load"] @@ Pos(c, e)
IntNode(w, c, e) == [type |-> "Constant", vtype |-> "int", value |-> NumValue(w)] @@ Pos(c, e)
StrNode(w, c, e) == [type |-> "Constant", vtype |-> "str", value |-> w] @@ Pos(c, e)
TupleNode(c, e) == [type |-> "Tuple", elts |-> <<>>, ctx |-> "Load"] @@ Pos(c, e)
AttributeNode(v, attr, c, e) ==
    [type |-> "Attribute", value |-> v, attr |-> attr, ctx |-> "Load"] @@ Pos(c, e)
CallNode(f, args, kws, c, e) ==
    [type |-> "Call", func |-> f, args |-> args, keywords |-> kws] @@ Pos(c, e)
KeywordNode(arg, v, c, e) == [type |-> "keyword", arg |-> arg, value |-> v] @@ Pos(c, e)
UnaryOpNode(op, operand, c, e) ==
    [type |-> "UnaryOp", op |-> [type |-> op], operand |-> operand] @@ Pos(c, e)
BinOpNode(l, op, r, c, e) ==
    [type |-> "BinOp", left |-> l, op |-> [type |-> op], right |-> r] @@ Pos(c, e)
CompareNode(l, ops, cs, c, e) ==
    [type |-> "Compare", left |-> l, ops |-> ops, comparators |-> cs] @@ Pos(c, e)
BoolOpNode(op, values, c, e) ==
    [type |-> "BoolOp", op |-> [type |-> op], values |-> values] @@ Pos(c, e)
ExpressionNode(body) == [type |-> "Expression", body |-> body]

\* a parse: the node, the index of the next token, and the span of the text parsed
Parsed(node, next, start, end) ==
    [ok |-> TRUE, node |-> node, next |-> next, start |-> start, end |-> end]
ParseFail == [ok |-> FALSE]

IsOp(t, i, c) == i <= Len(t) /\ t[i].kind = "OP" /\ t[i].text = <<c>>
IsKw(t, i, w) == i <= Len(t) /\ t[i].kind = "KEYWORD" /\ t[i].text = w
IsKind(t, i, k) == i <= Len(t) /\ t[i].kind = k

\* the operands after the first of a chain: [ok, nodes, next, end]
Rest(nodes, next, end) == [ok |-> TRUE, nodes |-> nodes, next |-> next, end |-> end]
NoRest(i) == Rest(<<>>, i, 0)
MoreRest(r, more) ==
    Rest(<<r.node>> \o more.nodes, more.next, IF more.nodes = <<>> THEN r.end ELSE more.end)

\* the grammar rule below an and/or chain, and the keyword of the chain
OperandRule(rule) ==
    IF rule \in {"disjunction", "or_rest"} THEN "conjunction" ELSE "inversion"
RestRule(rule) == IF rule = "disjunction" THEN "or_rest" ELSE "and_rest"
ChainKeyword(rule) == IF rule \in {"disjunction", "or_rest"} THEN OR ELSE AND
ChainOp(rule) == IF rule = "disjunction" THEN "Or" ELSE "And"

\* One rule of the grammar applied to the tokens t.  x is the index of the first
\* token to parse, or, for the rules that continue a parse (trailers, sum_rest),
\* the parse so far.
RECURSIVE ParseRule(_, _, _)
ParseRule(rule, t, x) ==
    CASE rule = "atom" ->
        IF IsKind(t, x, "NAME") THEN
            Parsed(NameNode(t[x].text, t[x].col, t[x].end), x + 1, t[x].col, t[x].end)
        ELSE IF IsKind(t, x, "NUMBER") THEN
            Parsed(IntNode(t[x].text, t[x].col, t[x].end), x + 1, t[x].col, t[x].end)
        ELSE IF IsKind(t, x, "STRING") THEN
            Parsed(StrNode(t[x].text, t[x].col, t[x].end), x + 1, t[x].col, t[x].end)
        ELSE IF IsOp(t, x, "(") THEN
            IF IsOp(t, x + 1, ")") THEN
                Parsed(TupleNode(t[x].col, t[x + 1].end), x + 2, t[x].col, t[x + 1].end)
            ELSE
                LET r == ParseRule("disjunction", t, x + 1)
                IN  IF r.ok /\ IsOp(t, r.next, ")")
                    THEN Parsed(r.node, r.next + 1, t[x].col, t[r.next].end)
                    ELSE ParseFail
        ELSE ParseFail
      \* attribute references and calls after a primary
      [] rule = "trailers" ->
        IF IsOp(t, x.next, ".") THEN
            IF IsKind(t, x.next + 1, "NAME") THEN
                LET n == t[x.next + 1]
                IN  ParseRule("trailers", t,
                              Parsed(AttributeNode(x.node, n.text, x.start, n.end),
                                     x.next + 2, x.start, n.end))
            ELSE ParseFail
        ELSE IF IsOp(t, x.next, "(") THEN
            IF IsOp(t, x.next + 1, ")") THEN
                LET e == t[x.next + 1].end
                IN  ParseRule("trailers", t,
                              Parsed(CallNode(x.node, <<>>, <<>>, x.start, e),
                                     x.next + 2, x.start, e))
            ELSE
                LET kw == IsKind(t, x.next + 1, "NAME") /\ IsOp(t, x.next + 2, "=")
                    v == ParseRule("disjunction", t, IF kw THEN x.next + 3 ELSE x.next + 1)
                IN  IF v.ok /\ IsOp(t, v.next, ")") THEN
                        LET e == t[v.next].end
                            k == KeywordNode(t[x.next + 1].text, v.node, t[x.next + 1].col, v.end)
                            call == IF kw THEN CallNode(x.node, <<>>, <<k>>, x.start, e)
                                    ELSE CallNode(x.node, <<v.node>>, <<>>, x.start, e)
                        IN  ParseRule("trailers", t, Parsed(call, v.next + 1, x.start, e))
                    ELSE ParseFail
        ELSE x
      [] rule = "primary" ->
        LET a == ParseRule("atom", t, x)
        IN  IF a.ok THEN ParseRule("trailers", t, a) ELSE ParseFail
      [] rule = "factor" ->
        IF IsOp(t, x, "-") \/ IsOp(t, x, "+") THEN
            LET r == ParseRule("factor", t, x + 1)
            IN  IF r.ok
                THEN Parsed(UnaryOpNode(IF IsOp(t, x, "-") THEN "USub" ELSE "UAdd",
                                        r.node, t[x].col, r.end),
                            r.next, t[x].col, r.end)
                ELSE ParseFail
        ELSE ParseRule("primary", t, x)
      \* + and - associate to the left
      [] rule = "sum_rest" ->
        IF IsOp(t, x.next, "+") \/ IsOp(t, x.next, "-") THEN
            LET r == ParseRule("factor", t, x.next + 1)
            IN  IF r.ok
                THEN ParseRule("sum_rest", t,
                               Parsed(BinOpNode(x.node,
                                                IF IsOp(t, x.next, "+") THEN "Add" ELSE "Sub",
                                                r.node, x.start, r.end),
                                      r.next, x.start, r.end))
                ELSE ParseFail
        ELSE x
      [] rule = "sum" ->
        LET l == ParseRule("factor", t, x)
        IN  IF l.ok THEN ParseRule("sum_rest", t, l) ELSE ParseFail
      [] rule = "compare_rest" ->
        IF IsOp(t, x, "<") THEN
            LET r == ParseRule("sum", t, x + 1)
            IN  IF ~r.ok THEN ParseFail
                ELSE LET more == ParseRule("compare_rest", t, r.next)
                     IN  IF ~more.ok THEN ParseFail ELSE MoreRest(r, more)
        ELSE NoRest(x)
      \* a chain of comparisons is one Compare node
      [] rule = "comparison" ->
        LET l == ParseRule("sum", t, x)
        IN  IF ~l.ok THEN ParseFail
            ELSE LET rest == ParseRule("compare_rest", t, l.next)
                 IN  IF ~rest.ok THEN ParseFail
                     ELSE IF rest.nodes = <<>> THEN l
                     ELSE Parsed(CompareNode(l.node,
                                             [k \in 1..Len(rest.nodes) |-> [type |-> "Lt"]],
                                             rest.nodes, l.start, rest.end),
                                 rest.next, l.start, rest.end)
      [] rule = "inversion" ->
        IF IsKw(t, x, NOT) THEN
            LET r == ParseRule("inversion", t, x + 1)
            IN  IF r.ok
                THEN Parsed(UnaryOpNode("Not", r.node, t[x].col, r.end),
                            r.next, t[x].col, r.end)
                ELSE ParseFail
        ELSE ParseRule("comparison", t, x)
      [] rule \in {"or_rest", "and_rest"} ->
        IF IsKw(t, x, ChainKeyword(rule)) THEN
            LET r == ParseRule(OperandRule(rule), t, x + 1)
            IN  IF ~r.ok THEN ParseFail
                ELSE LET more == ParseRule(rule, t, r.next)
                     IN  IF ~more.ok THEN ParseFail ELSE MoreRest(r, more)
        ELSE NoRest(x)
      \* a chain of two or more operands of and, or of or, is one BoolOp node
      [] rule \in {"disjunction", "conjunction"} ->
        LET l == ParseRule(OperandRule(rule), t, x)
        IN  IF ~l.ok THEN ParseFail
            ELSE LET rest == ParseRule(RestRule(rule), t, l.next)
                 IN  IF ~rest.ok THEN ParseFail
                     ELSE IF rest.nodes = <<>> THEN l
                     ELSE Parsed(BoolOpNode(ChainOp(rule), <<l.node>> \o rest.nodes,
                                            l.start, rest.end),
                                 rest.next, l.start, rest.end)

ParseDisjunction(t, i) == ParseRule("disjunction", t, i)

\* ast.parse(s, mode="eval"): the Expression node, or a failure (a SyntaxError
\* raised by the parser itself)
Parse(s) ==
    LET t == Lex(s)
        r == ParseDisjunction(t, 1)
    IN  IF r.ok /\ r.next = Len(t) + 1 THEN [ok |-> TRUE, node |-> ExpressionNode(r.node)]
        ELSE ParseFail

(***************************************************************************)
(* ExpressionMatcher.Transformer                                           *)
(***************************************************************************)
\* the message of an error: a format and the function name it is filled with
Message(fmt, func) == [fmt |-> fmt, func |-> func]

\* Transformer.error: raise SyntaxError(msg, (None, lineno, col_offset + 1, expression));
\* at is the node the rewriter was at
Raise(self, msg, lineno, col_offset, at) ==
    [ok |-> FALSE,
     error |-> [msg |-> msg, lineno |-> lineno, offset |-> col_offset + 1, text |-> self],
     at |-> at]

Visited(node) == [ok |-> TRUE, node |-> node]

\* Python's `a or b` on integers
PyOr(a, b) == IF a # 0 THEN a ELSE b

ItemsName == [type |-> "Name", id |-> ITEMS, ctx |-> "Load"]

\* str(value) of a Constant node
StrOfValue(node) == IF node.vtype = "int" THEN StrOfInt(node.value) ELSE node.value

\* a faulty variant: the name of the collection is taken for the key
MembershipTest_ItemsKey(key) ==
    [type |-> "Compare",
     left |-> [type |-> "Constant", vtype |-> "str", value |-> ITEMS],
     ops |-> <<[type |-> "In"]>>,
     comparators |-> <<ItemsName>>]

MembershipTest(key) ==
    [type |-> "Compare",
     left |-> [type |-> "Constant", vtype |-> "str", value |-> key],
     ops |-> <<[type |-> "In"]>>,
     comparators |-> <<ItemsName>>]
\* a faulty variant: the negation is missing
EmptinessCheck_NotNegated == ItemsName

EmptinessCheck == [type |-> "UnaryOp", op |-> [type |-> "Not"], operand |-> ItemsName]
AlwaysTrue == [type |-> "Constant", vtype |-> "bool", value |-> TRUE]

IsCallOfName(node) == node.type = "Call" /\ node.func.type = "Name"
IsPlainCallOf(node, name) ==
    IsCallOfName(node) /\ node.func.id = name /\ node.args = <<>> /\ node.keywords = <<>>

\* the node kinds generic_visit keeps and descends into
IsPreserved(node) ==
    \/ node.type = "Expression"
    \/ node.type = "BoolOp" /\ node.op.type \in {"Or", "And"}
    \/ node.type \in {"Or", "And", "Not"}
    \/ node.type = "UnaryOp" /\ node.op.type = "Not"

\* empty(...) or anything(...) with arguments: point the error to the argument list
ArgumentError(self, node) ==
    Raise(self, Message("invalid syntax, {func}() does not accept any argument", node.func.id),
          PyOr(node.func.end_lineno, node.lineno),
          PyOr(node.func.end_col_offset, node.col_offset), node)

\* a faulty variant: the column of the called name, not of the call
UnknownFunctionError_AtName(self, node) ==
    Raise(self, Message("invalid syntax, unknown function", <<>>),
          node.lineno, node.func.col_offset, node)

\* a call of any other name
UnknownFunctionError(self, node) ==
    Raise(self, Message("invalid syntax, unknown function", <<>>),
          node.lineno, node.col_offset, node)

\* a BinOp whose left operand is a name: point the error to the operator
UnsupportedOperationError(self, node) ==
    Raise(self, Message("invalid syntax, unsupported operation", <<>>),
          PyOr(node.left.end_lineno, node.lineno),
          PyOr(node.left.end_col_offset, node.col_offset), node)

\* a faulty variant: the node is kept and no error is raised
InvalidSyntaxError_Ignored(self, node) == Visited(node)

\* any other node
InvalidSyntaxError(self, node) ==
    Raise(self, Message("invalid syntax", <<>>), node.lineno, node.col_offset + 1, node)

RECURSIVE generic_visit(_, _), VisitList(_, _, _)

\* visit the nodes of a list in order; the first error ends the visit
VisitList(self, nodes, k) ==
    IF k > Len(nodes) THEN [ok |-> TRUE, nodes |-> <<>>]
    ELSE LET r == generic_visit(self, nodes[k])
         IN  IF ~r.ok THEN r
             ELSE LET more == VisitList(self, nodes, k + 1)
                  IN  IF ~more.ok THEN more
                      ELSE [ok |-> TRUE, nodes |-> <<r.node>> \o more.nodes]

\* a faulty variant: a negation is replaced by its visited operand
VisitChildren_DropsNot(self, node) ==
    IF node.type = "Expression" THEN
        LET b == generic_visit(self, node.body)
        IN  IF b.ok THEN Visited([node EXCEPT !.body = b.node]) ELSE b
    ELSE IF node.type = "BoolOp" THEN
        LET o == generic_visit(self, node.op)
        IN  IF ~o.ok THEN o
            ELSE LET vs == VisitList(self, node.values, 1)
                 IN  IF vs.ok THEN Visited([node EXCEPT !.op = o.node, !.values = vs.nodes])
                     ELSE vs
    ELSE IF node.type = "UnaryOp" THEN
        LET o == generic_visit(self, node.op)
        IN  IF ~o.ok THEN o ELSE generic_visit(self, node.operand)
    ELSE Visited(node)

\* NodeTransformer.generic_visit: replace every child by its visit, in field order
VisitChildren(self, node) ==
    IF node.type = "Expression" THEN
        LET b == generic_visit(self, node.body)
        IN  IF b.ok THEN Visited([node EXCEPT !.body = b.node]) ELSE b
    ELSE IF node.type = "BoolOp" THEN
        LET o == generic_visit(self, node.op)
        IN  IF ~o.ok THEN o
            ELSE LET vs == VisitList(self, node.values, 1)
                 IN  IF vs.ok THEN Visited([node EXCEPT !.op = o.node, !.values = vs.nodes])
                     ELSE vs
    ELSE IF node.type = "UnaryOp" THEN
        LET o == generic_visit(self, node.op)
        IN  IF ~o.ok THEN o
            ELSE LET x == generic_visit(self, node.operand)
                 IN  IF x.ok THEN Visited([node EXCEPT !.op = o.node, !.operand = x.node])
                     ELSE x
    ELSE Visited(node)

\* Transformer.generic_visit; self is the expression text the transformer holds
generic_visit(self, node) ==
    IF node.type = "Name" /\ node.ctx = "Load" THEN
        Visited(MembershipTest(node.id))
    ELSE IF node.type = "Constant" THEN
        Visited(MembershipTest(StrOfValue(node)))
    ELSE IF IsPlainCallOf(node, EMPTY) THEN
        Visited(EmptinessCheck)
    ELSE IF IsPlainCallOf(node, ANYTHING) THEN
        Visited(AlwaysTrue)
    ELSE IF IsPreserved(node) THEN
        VisitChildren(self, node)
    ELSE IF IsCallOfName(node) /\ node.func.id \in {EMPTY, ANYTHING} THEN
        ArgumentError(self, node)
    ELSE IF IsCallOfName(node) THEN
        UnknownFunctionError(self, node)
    ELSE IF node.type = "BinOp" /\ node.left.type = "Name" THEN
        UnsupportedOperationError(self, node)
    ELSE
        InvalidSyntaxError(self, node)

(***************************************************************************)
(* ast.fix_missing_locations: a node without a position takes its parent's *)
(***************************************************************************)
PosFields == {"lineno", "col_offset", "end_lineno", "end_col_offset"}

HasAttributes(node) ==
    node.type \in {"Name", "Constant", "Compare", "UnaryOp", "BoolOp", "BinOp", "Call",
                   "Attribute", "Tuple", "keyword"}

NodeFields(node) ==
    CASE node.type = "Expression" -> {"body"}
      [] node.type = "UnaryOp" -> {"op", "operand"}
      [] node.type = "BoolOp" -> {"op"}
      [] node.type = "BinOp" -> {"left", "op", "right"}
      [] node.type = "Compare" -> {"left"}
      [] node.type = "Call" -> {"func"}
      [] node.type \in {"Attribute", "keyword"} -> {"value"}
      [] OTHER -> {}

ListFields(node) ==
    CASE node.type = "BoolOp" -> {"values"}
      [] node.type = "Compare" -> {"ops", "comparators"}
      [] node.type = "Call" -> {"args", "keywords"}
      [] node.type = "Tuple" -> {"elts"}
      [] OTHER -> {}

RECURSIVE FixLocations(_, _)
FixLocations(node, parent) ==
    LET here == IF HasAttributes(node)
                THEN [f \in PosFields |-> IF f \in DOMAIN node THEN node[f] ELSE parent[f]]
                ELSE parent
        fields == IF HasAttributes(node) THEN DOMAIN node \cup PosFields ELSE DOMAIN node
    IN  [f \in fields |->
            IF f \in PosFields THEN here[f]
            ELSE IF f \in NodeFields(node) THEN FixLocations(node[f], here)
            ELSE IF f \in ListFields(node)
                 THEN [k \in 1..Len(node[f]) |-> FixLocations(node[f][k], here)]
            ELSE node[f]]

fix_missing_locations(node) == FixLocations(node, Pos(0, 0))

(***************************************************************************)
(* eval(compiled, {}, {"items": items}): the value of a tree on a          *)
(* collection.  A collection is a set of strings, a list of strings or a   *)
(* text; a value is a boolean, a string, the collection, or an exception.  *)
(***************************************************************************)
Bool(b) == [kind |-> "bool", val |-> b]
Str(s) == [kind |-> "str", val |-> s]
Coll(c) == [kind |-> "items", val |-> c]
IntV(n) == [kind |-> "int", val |-> n]
Exc == [kind |-> "exc", val |-> "raised"]

\* x in t for two texts: t has x as a substring
Substring(x, t) ==
    \E i \in 0..(Len(t) - Len(x)) : SubSeq(t, i + 1, i + Len(x)) = x

\* key in c for a collection c
Contains(key, c) ==
    CASE c.kind = "set" -> key \in c.val
      [] c.kind = "list" -> \E k \in 1..Len(c.val) : c.val[k] = key
      [] c.kind = "text" -> Substring(key, c.val)

\* len(c)
Size(c) == IF c.kind = "set" THEN Cardinality(c.val) ELSE Len(c.val)

Truthy(v) ==
    CASE v.kind = "bool" -> v.val
      [] v.kind = "str" -> Len(v.val) # 0
      [] v.kind = "int" -> v.val # 0
      [] v.kind = "items" -> Size(v.val) # 0

RECURSIVE Eval(_, _), EvalBoolOp(_, _, _, _)

\* and/or: the value of the first operand that decides, else of the last
EvalBoolOp(op, values, k, c) ==
    LET v == Eval(values[k], c)
    IN  IF v.kind = "exc" \/ k = Len(values) THEN v
        ELSE IF (op = "Or") = Truthy(v) THEN v
        ELSE EvalBoolOp(op, values, k + 1, c)

Eval(node, c) ==
    IF node.type = "Constant" THEN
        IF node.vtype = "bool" THEN Bool(node.value)
        ELSE IF node.vtype = "str" THEN Str(node.value)
        ELSE IntV(node.value)
    ELSE IF node.type = "Name" THEN
        IF node.id = ITEMS THEN Coll(c) ELSE Exc
    ELSE IF node.type = "Compare" /\ Len(node.ops) = 1 /\ node.ops[1].type = "In" THEN
        LET l == Eval(node.left, c)
            r == Eval(node.comparators[1], c)
        IN  IF l.kind = "str" /\ r.kind = "items" THEN Bool(Contains(l.val, r.val))
            ELSE IF l.kind \in {"int", "bool"} /\ r.kind = "items" /\ r.val.kind # "text"
                 THEN Bool(FALSE)
            ELSE Exc
    ELSE IF node.type = "UnaryOp" /\ node.op.type = "Not" THEN
        LET v == Eval(node.operand, c)
        IN  IF v.kind = "exc" THEN Exc ELSE Bool(~Truthy(v))
    ELSE IF node.type = "BoolOp" THEN
        EvalBoolOp(node.op.type, node.values, 1, c)
    ELSE IF node.type = "Expression" THEN
        Eval(node.body, c)
    ELSE \* any other node of the inputs reads a name that is not bound: NameError
        Exc

(***************************************************************************)
(* The inputs: texts built by concatenation from operands inside and       *)
(* outside the accepted subset, and the collections they are matched on.   *)
(***************************************************************************)
SP == <<" ">>
LP == <<"(">>
RP == <<")">>
ONE == <<"1">>
X == <<"x">>
EMPTY_CALL == EMPTY \o LP \o RP
ANYTHING_CALL == ANYTHING \o LP \o RP

Identifiers == {FOO, BAR, ITEMS, EMPTY, X}

\* operands of the accepted subset
GoodOperands == {FOO, BAR, ONE, EMPTY_CALL, ANYTHING_CALL}

\* further texts of the accepted subset, given to the constructor as they are
Literals == {<<"4", "2">>, <<"0", "0">>, <<Quote>> \o FOO \o <<Quote>>}

\* operands outside the accepted subset, and texts the parser rejects
BadOperands ==
    { FOO \o SP \o <<"+">> \o SP \o ONE,               \* foo + 1
      FOO \o <<"+">> \o ONE,                           \* foo+1
      LP \o FOO \o RP \o SP \o <<"+">> \o SP \o ONE,   \* (foo) + 1
      FOO \o SP \o SP \o <<"-">> \o SP \o BAR,         \* foo  - bar
      FOO \o SP \o <<"-">> \o SP \o ONE \o SP \o <<"+">> \o SP \o ONE,  \* foo - 1 + 1
      EMPTY \o LP \o ONE \o RP,                        \* empty(1)
      EMPTY \o SP \o LP \o ONE \o RP,                  \* empty (1)
      EMPTY \o LP \o X \o <<"=">> \o ONE \o RP,        \* empty(x=1)
      ANYTHING \o LP \o FOO \o RP,                     \* anything(foo)
      LP \o ANYTHING \o RP \o LP \o ONE \o RP,         \* (anything)(1)
      FOO \o LP \o RP,                                 \* foo()
      FOO \o LP \o ONE \o RP,                          \* foo(1)
      BAR \o SP \o LP \o X \o <<"=">> \o ONE \o RP,    \* bar (x=1)
      LP \o FOO \o RP \o LP \o RP,                     \* (foo)()
      FOO \o LP \o RP \o LP \o RP,                     \* foo()()
      ONE \o SP \o <<"+">> \o SP \o FOO,               \* 1 + foo
      <<"-">> \o FOO,                                  \* -foo
      FOO \o <<".">> \o BAR,                           \* foo.bar
      FOO \o SP \o <<"<">> \o SP \o ONE,               \* foo < 1
      LP \o ONE \o RP \o <<"<">> \o FOO,               \* (1)<foo
      LP \o RP,                                        \* ()
      FOO \o SP \o OR,                                 \* foo or
      LP \o FOO,                                       \* (foo
      FOO \o SP \o BAR,                                \* foo bar
      <<"0", "1">>,                                    \* 01
      SP \o FOO }                                      \* an indented foo

Operands == GoodOperands \cup BadOperands

\* the texts one combinator makes of a text
Combine(a) ==
    { NOT \o SP \o a, LP \o a \o RP,
      a \o SP \o OR \o SP \o EMPTY_CALL, a \o SP \o AND \o SP \o BAR,
      FOO \o SP \o OR \o SP \o a, FOO \o SP \o AND \o SP \o a }

RECURSIVE Texts(_)
Texts(n) ==
    IF n = 0 THEN Operands
    ELSE LET prev == Texts(n - 1) IN prev \cup UNION {Combine(a) : a \in prev}

Arg(s) == [kind |-> "str", val |-> s]

\* the arguments the constructor is given: None, the empty text, the texts
\* deeper nestings of the accepted subset
Nested ==
    { NOT \o SP \o LP \o FOO \o SP \o OR \o SP \o BAR \o RP \o SP \o AND \o SP \o EMPTY_CALL,
          \* not (foo or bar) and empty()
      FOO \o SP \o AND \o SP \o LP \o BAR \o SP \o OR \o SP \o NOT \o SP \o EMPTY_CALL \o RP,
          \* foo and (bar or not empty())
      FOO \o SP \o OR \o SP \o BAR \o SP \o OR \o SP \o NOT \o SP \o NOT \o SP \o ONE,
          \* foo or bar or not not 1
      NOT \o SP \o LP \o NOT \o SP \o FOO \o SP \o AND \o SP \o BAR \o SP \o OR \o SP
          \o ANYTHING_CALL \o RP,
          \* not (not foo and bar or anything())
      FOO \o SP \o AND \o SP \o LP \o BAR \o SP \o OR \o SP \o BAR \o LP \o RP \o RP }
          \* foo and (bar or bar())

Inputs ==
    {None @@ [val |-> <<>>], Arg(<<>>)}
        \cup {Arg(s) : s \in Texts(MaxOps) \cup Identifiers \cup Literals \cup Nested}

ItemWords == {FOO, BAR, <<"o">>}

RECURSIVE Lists(_)
Lists(n) ==
    IF n = 0 THEN {<<>>}
    ELSE LET prev == Lists(n - 1)
         IN  prev \cup {Append(l, w) : l \in prev, w \in ItemWords}

\* raw texts: the empty one, foo, ofoo, foobarbaz, bar, fo, 1o
ItemTexts ==
    {<<>>, FOO, <<"o">> \o FOO, FOO \o BAR \o <<"b", "a", "z">>, BAR, <<"f", "o">>,
     ONE \o <<"o">>}

Collections(kind) ==
    CASE kind = "set" ->
            {[kind |-> "set", val |-> S] :
                S \in {T \in SUBSET ItemWords : Cardinality(T) <= MaxItems}}
      [] kind = "list" -> {[kind |-> "list", val |-> l] : l \in Lists(MaxItems)}
      [] kind = "text" -> {[kind |-> "text", val |-> t] : t \in ItemTexts}

CollectionKinds == {"set", "list", "text"}

(***************************************************************************)
(* ExpressionMatcher                                                       *)
(***************************************************************************)
\* what ast.parse raises; the parser's own message and position are not modelled
ParserError(text) ==
    [msg |-> Message("<raised by ast.parse>", <<>>), lineno |-> 1, offset |-> 0,
     text |-> text]
AtParser == [type |-> "<parser>"]
NoError == [msg |-> Message("", <<>>), lineno |-> 0, offset |-> 0, text |-> <<>>]
NoNode == [type |-> "<none>"]

\* a faulty variant: only None is taken for "no expression"
Normalize_NoneOnly(arg) == IF arg.kind = "None" THEN ANYTHING_CALL ELSE arg.val

\* if not expression: expression = "anything()"
Normalize(arg) == IF arg.kind = "None" \/ Len(arg.val) = 0 THEN ANYTHING_CALL ELSE arg.val

\* __init__: the fields of the matcher, or the SyntaxError raised
Compile(arg) ==
    LET text == Normalize(arg)
        parsed == Parse(text)
        transformed == generic_visit(text, parsed.node)
    IN  IF ~parsed.ok THEN
            [ok |-> FALSE, expression |-> text, ast |-> NoNode,
             error |-> ParserError(text), at |-> AtParser]
        ELSE IF ~transformed.ok THEN
            [ok |-> FALSE, expression |-> text, ast |-> NoNode,
             error |-> transformed.error, at |-> transformed.at]
        ELSE
            [ok |-> TRUE, expression |-> text,
             ast |-> fix_missing_locations(transformed.node),
             error |-> NoError, at |-> NoNode]

\* matches(items): eval(compiled, {}, {"items": items})
matches(ast, c) == Eval(ast, c)

\* __repr__: f"{self.__class__.__qualname__}('{self.expression}')"
Repr(expr) ==
    [qualname |-> "ExpressionMatcher", open |-> "('", expression |-> expr, close |-> "')"]

NoItems == [kind |-> "<none>", val |-> <<>>]
NoResult == [kind |-> "<none>", val |-> "<none>"]
NoRendering == [qualname |-> "", open |-> "", expression |-> <<>>, close |-> ""]
NoCall == [items |-> NoItems, result |-> NoResult]
NoMatcher == [ok |-> FALSE, expression |-> <<>>, ast |-> NoNode, error |-> NoError, at |-> NoNode]
NoPair ==
    [pc |-> "new", a |-> <<>>, b |-> <<>>, left |-> NoMatcher, right |-> NoMatcher,
     items |-> NoItems, resl |-> NoResult, resr |-> NoResult]

Init ==
    /\ pc = "new"
    /\ input = None @@ [val |-> <<>>]
    /\ expression = <<>>
    /\ tree = NoNode
    /\ error = NoError
    /\ raisedAt = NoNode
    /\ items = NoItems
    /\ result = NoResult
    /\ rendering = NoRendering
    /\ first = NoCall
    /\ dm = NoPair

\* ExpressionMatcher(arg)
Construct(arg) ==
    /\ pc = "new"
    /\ LET m == Compile(arg)
       IN  /\ pc' = IF m.ok THEN "ready" ELSE "failed"
           /\ expression' = IF m.ok THEN m.expression ELSE expression
           /\ tree' = m.ast
           /\ error' = m.error
           /\ raisedAt' = m.at
    /\ input' = arg
    /\ UNCHANGED <<items, result, rendering>>

\* a faulty variant: the matcher keeps the outcome of the call in place of its tree
Call_Caching(c) ==
    /\ pc = "ready"
    /\ items' = c
    /\ result' = matches(tree, c)
    /\ tree' = [tree EXCEPT !.body = IF Truthy(matches(tree, c)) THEN AlwaysTrue
                                      ELSE EmptinessCheck]
    /\ UNCHANGED <<pc, input, expression, error, raisedAt, rendering>>

\* the matcher applied to a collection: __call__
Call(c) ==
    /\ pc = "ready"
    /\ items' = c
    /\ result' = matches(tree, c)
    /\ UNCHANGED <<pc, input, expression, tree, error, raisedAt, rendering>>

\* repr(matcher)
ReprCall ==
    /\ pc = "ready"
    /\ rendering' = Repr(expression)
    /\ UNCHANGED <<pc, input, expression, tree, error, raisedAt, items, result>>

New == \E arg \in Inputs : Construct(arg) /\ UNCHANGED <<first, dm>>

Match == \E k \in CollectionKinds : \E c \in Collections(k) : Call(c) /\ UNCHANGED <<first, dm>>

Render == ReprCall /\ UNCHANGED <<first, dm>>

Next == New \/ Match \/ Render

Spec == Init /\ [][Next]_vars

(***************************************************************************)
(* Repeated calls of one matcher, with the first call remembered.          *)
(***************************************************************************)
CallInputs ==
    {None @@ [val |-> <<>>]} \cup
    {Arg(s) : s \in GoodOperands \cup {FOO \o SP \o OR \o SP \o EMPTY_CALL,
                                      NOT \o SP \o FOO \o SP \o AND \o SP \o BAR}}

SameItems(c, d) == c.kind = d.kind /\ c.val = d.val

NewCalled == \E arg \in CallInputs : Construct(arg) /\ UNCHANGED <<first, dm>>

MatchAgain ==
    \E k \in CollectionKinds : \E c \in Collections(k) :
        /\ Call(c)
        /\ first' = IF first.items.kind = "<none>"
                    THEN [items |-> items', result |-> result']
                    ELSE first
        /\ UNCHANGED dm

NextCalls == NewCalled \/ MatchAgain

SpecCalls == Init /\ [][NextCalls]_vars

(***************************************************************************)
(* Two matchers compiled from the two De Morgan forms of a pair of texts,  *)
(* and called on the same collection.                                      *)
(***************************************************************************)
\* "not (" + a + " or " + b + ")"
NotOfOr(a, b) == NOT \o SP \o LP \o a \o SP \o OR \o SP \o b \o RP
\* "(not " + a + ") and (not " + b + ")"
AndOfNots(a, b) ==
    LP \o NOT \o SP \o a \o RP \o SP \o AND \o SP \o LP \o NOT \o SP \o b \o RP

SubExpressions ==
    GoodOperands \cup
    { NOT \o SP \o FOO,                               \* not foo
      LP \o FOO \o SP \o OR \o SP \o BAR \o RP,       \* (foo or bar)
      FOO \o SP \o OR \o SP \o BAR,                   \* foo or bar
      FOO \o SP \o AND \o SP \o BAR,                  \* foo and bar
      LP \o FOO \o RP \o SP \o AND \o SP \o EMPTY_CALL,  \* (foo) and empty()
      FOO \o SP \o <<"+">> \o SP \o ONE }             \* foo + 1

ConstructPair ==
    \E a \in SubExpressions, b \in SubExpressions :
        /\ dm.pc = "new"
        /\ Compile(Arg(a)).ok /\ Compile(Arg(b)).ok
        /\ dm' = [pc |-> "compiled", a |-> a, b |-> b,
                  left |-> Compile(Arg(NotOfOr(a, b))),
                  right |-> Compile(Arg(AndOfNots(a, b))),
                  items |-> NoItems, resl |-> NoResult, resr |-> NoResult]
        /\ UNCHANGED <<pc, input, expression, tree, error, raisedAt, items, result,
                       rendering, first>>

MatchPair ==
    \E k \in CollectionKinds : \E c \in Collections(k) :
        /\ dm.pc \in {"compiled", "called"}
        /\ dm.left.ok /\ dm.right.ok
        /\ dm' = [dm EXCEPT !.pc = "called", !.items = c,
                            !.resl = matches(dm.left.ast, c),
                            !.resr = matches(dm.right.ast, c)]
        /\ UNCHANGED <<pc, input, expression, tree, error, raisedAt, items, result,
                       rendering, first>>

NextDeMorgan == ConstructPair \/ MatchPair

SpecDeMorgan == Init /\ [][NextDeMorgan]_vars

(***************************************************************************)
(* What the properties are stated with.                                    *)
(***************************************************************************)
called == items.kind # "<none>"
rendered == rendering.qualname # ""

\* containment as the contract words it: equality with an element of a set or of
\* a list, and for a text, the key with some text before and some text after it
IsContained(key, c) ==
    CASE c.kind = "set" -> \E e \in c.val : e = key
      [] c.kind = "list" -> key \in {c.val[k] : k \in DOMAIN c.val}
      [] c.kind = "text" ->
            \E i \in 0..Len(c.val), j \in 0..Len(c.val) :
                /\ i <= j
                /\ SubSeq(c.val, i + 1, j) = key

HasNoElements(c) == IF c.kind = "set" THEN c.val = {} ELSE c.val = <<>>

IsTrue(v) == v.kind = "bool" /\ v.val
IsFalse(v) == v.kind = "bool" /\ ~v.val
Is(v, b) == v.kind = "bool" /\ v.val = b

IsMembershipTest(n) ==
    /\ n.type = "Compare"
    /\ n.left.type = "Constant" /\ n.left.vtype = "str"
    /\ Len(n.ops) = 1 /\ n.ops[1].type = "In"
    /\ Len(n.comparators) = 1
    /\ n.comparators[1].type = "Name" /\ n.comparators[1].id = ITEMS
IsEmptinessCheck(n) ==
    n.type = "UnaryOp" /\ n.op.type = "Not" /\ n.operand.type = "Name" /\ n.operand.id = ITEMS
IsAlwaysTrue(n) == n.type = "Constant" /\ n.vtype = "bool" /\ n.value = TRUE

RECURSIVE OnlySixVariants(_)
OnlySixVariants(n) ==
    \/ IsMembershipTest(n)
    \/ IsEmptinessCheck(n)
    \/ IsAlwaysTrue(n)
    \/ n.type = "UnaryOp" /\ n.op.type = "Not" /\ OnlySixVariants(n.operand)
    \/ /\ n.type = "BoolOp" /\ n.op.type \in {"And", "Or"}
       /\ \A k \in 1..Len(n.values) : OnlySixVariants(n.values[k])

\* the predicate tree t has the and/or/not nesting of the syntax tree p, leaf for leaf
RECURSIVE SameNesting(_, _)
SameNesting(p, t) ==
    IF p.type = "BoolOp" THEN
        /\ t.type = "BoolOp" /\ t.op.type = p.op.type
        /\ Len(t.values) = Len(p.values)
        /\ \A k \in 1..Len(p.values) : SameNesting(p.values[k], t.values[k])
    ELSE IF p.type = "UnaryOp" /\ p.op.type = "Not" THEN
        t.type = "UnaryOp" /\ t.op.type = "Not" /\ SameNesting(p.operand, t.operand)
    ELSE IF p.type = "Name" THEN IsMembershipTest(t) /\ t.left.value = p.id
    ELSE IF p.type = "Constant" THEN IsMembershipTest(t)
    ELSE IF IsPlainCallOf(p, EMPTY) THEN IsEmptinessCheck(t)
    ELSE IF IsPlainCallOf(p, ANYTHING) THEN IsAlwaysTrue(t)
    ELSE FALSE

IsUnknownCall(n) == IsCallOfName(n) /\ n.func.id \notin {EMPTY, ANYTHING}
IsArgumentCall(n) == IsCallOfName(n) /\ n.func.id \in {EMPTY, ANYTHING}
IsNameBinOp(n) == n.type = "BinOp" /\ n.left.type = "Name"

RECURSIVE HasUnknownCall(_)
HasUnknownCall(n) ==
    \/ IsUnknownCall(n)
    \/ \E f \in NodeFields(n) : HasUnknownCall(n[f])
    \/ \E f \in ListFields(n) : \E k \in 1..Len(n[f]) : HasUnknownCall(n[f][k])

\* the character of the expression at the 1-based column the error reports
ReportedChar == IF error.offset \in 1..Len(error.text) THEN error.text[error.offset] ELSE ""

\* the text is an and/or combination that no parentheses enclose
IsBareBoolOp(s) ==
    LET p == Parse(s) IN p.ok /\ p.node.body.type = "BoolOp" /\ p.node.body.col_offset = 0

(***************************************************************************)
(* Properties                                                              *)
(***************************************************************************)

\* C1: the matcher compiled from an identifier x compiles, and on every
\* collection it is true iff x is contained in the collection: equal to an
\* element of a set or list, a substring of a text.
C1_IdentifierIsMembership ==
    (pc # "new" /\ input.kind = "str" /\ input.val \in Identifiers) =>
        /\ pc = "ready"
        /\ called => Is(result, IsContained(input.val, items))

C1_Witness ==
    /\ pc = "ready" /\ input.kind = "str" /\ input.val = FOO
    /\ items.kind = "text" /\ items.val = <<"o">> \o FOO
    /\ IsTrue(result)

\* C2: constructed with None or with the empty string, the matcher compiles,
\* stores and renders the expression 'anything()', and matches every collection,
\* the empty one included, as the matcher compiled from "anything()" does.
C2_NoExpressionIsAnything ==
    (pc # "new" /\ (input.kind = "None" \/ input.val = <<>>)) =>
        /\ pc = "ready"
        /\ expression = ANYTHING_CALL
        /\ called =>
            /\ IsTrue(result)
            /\ IsTrue(matches(Compile(Arg(ANYTHING_CALL)).ast, items))
        /\ rendered =>
            /\ rendering.qualname = "ExpressionMatcher"
            /\ rendering.open = "('" /\ rendering.close = "')"
            /\ rendering.expression = ANYTHING_CALL

C2_Witness ==
    /\ pc = "ready" /\ input.kind = "str" /\ input.val = <<>>
    /\ called /\ HasNoElements(items) /\ IsTrue(result)
    /\ rendered /\ rendering.expression = ANYTHING_CALL

\* C3: the matcher compiled from "empty()" is true exactly on the collections
\* with no element, and the one compiled from "foo or empty()" is true exactly
\* on the empty collection and on the collections that contain foo.
C3_EmptyMatchesNoElements ==
    /\ (pc # "new" /\ input.kind = "str" /\ input.val = EMPTY_CALL) =>
            /\ pc = "ready"
            /\ called => Is(result, HasNoElements(items))
    /\ (pc # "new" /\ input.kind = "str"
            /\ input.val = FOO \o SP \o OR \o SP \o EMPTY_CALL) =>
            /\ pc = "ready"
            /\ called => Is(result, IsContained(FOO, items) \/ HasNoElements(items))

C3_Witness ==
    /\ pc = "ready" /\ input.val = FOO \o SP \o OR \o SP \o EMPTY_CALL
    /\ items.kind = "list" /\ items.val = <<BAR>>
    /\ IsFalse(result)

\* C4: when the rewriter fails at a binary operator whose left operand is an
\* identifier, the message is "invalid syntax, unsupported operation" and the
\* reported 1-based column is the column of the operator character.
C4_ColumnIsTheOperator ==
    (pc = "failed" /\ IsNameBinOp(raisedAt)) =>
        /\ error.msg.fmt = "invalid syntax, unsupported operation"
        /\ ReportedChar \in {"+", "-"}

\* C5: when the rewriter fails at a call of empty or anything that carries an
\* argument, the message names the function and the reported column is the start
\* of the argument list (its opening parenthesis), not the start of the call.
C5_ColumnIsTheArgumentList ==
    (pc = "failed" /\ IsArgumentCall(raisedAt)) =>
        /\ error.msg.fmt = "invalid syntax, {func}() does not accept any argument"
        /\ error.msg.func = raisedAt.func.id
        /\ error.offset > raisedAt.col_offset + 1
        /\ ReportedChar = "("

\* C6: when the rewriter fails at a call of a name other than empty and
\* anything, with or without arguments, the message is "invalid syntax, unknown
\* function" and the reported 1-based column is the first character of the call;
\* and no expression with such a call compiles.
C6_UnknownFunction ==
    /\ (pc = "failed" /\ IsUnknownCall(raisedAt)) =>
            /\ error.msg.fmt = "invalid syntax, unknown function"
            /\ error.lineno = 1
            /\ error.offset = raisedAt.col_offset + 1
            /\ error.text = input.val
            /\ ReportedChar \in Letters \cup {"("}
            /\ raisedAt.func.col_offset = raisedAt.col_offset =>
                    SubSeq(error.text, error.offset,
                           error.offset + Len(raisedAt.func.id) - 1) = raisedAt.func.id
    /\ (pc = "ready" /\ ~called /\ ~rendered) => ~HasUnknownCall(Parse(expression).node)

C6_Witness ==
    /\ pc = "failed" /\ IsUnknownCall(raisedAt)
    /\ raisedAt.args # <<>>
    /\ error.offset > 1

\* C7 as first stated: for all compilable a and b, the matchers compiled from
\* "not (" + a + " or " + b + ")" and "(not " + a + ") and (not " + b + ")"
\* give the same result on every collection.
C7_DeMorganAllTexts ==
    dm.pc = "called" => (dm.resl.kind = "bool" /\ dm.resr.kind = "bool"
                         /\ dm.resl.val = dm.resr.val)

\* C7, amended: for all compilable a and b neither of which is an and/or
\* combination outside parentheses, the two texts both compile or both fail to,
\* and when they compile the two matchers give the same result on every
\* collection.
C7_DeMorganOperands ==
    (dm.pc # "new" /\ ~IsBareBoolOp(dm.a) /\ ~IsBareBoolOp(dm.b)) =>
        /\ dm.left.ok = dm.right.ok
        /\ dm.pc = "called" => (dm.resl.kind = "bool" /\ dm.resr.kind = "bool"
                                /\ dm.resl.val = dm.resr.val)

C7_Witness ==
    /\ dm.pc = "called" /\ dm.left.ok /\ dm.right.ok
    /\ dm.a = LP \o FOO \o SP \o OR \o SP \o BAR \o RP /\ dm.b = EMPTY_CALL
    /\ dm.items.kind = "set" /\ dm.items.val = {<<"o">>}
    /\ IsTrue(dm.resl) /\ IsTrue(dm.resr)

\* C8: every compilation either fails with an error or gives a tree made only of
\* the six variants, with the and/or/not nesting of the input, and evaluating a
\* compiled tree on any collection gives a boolean and never raises.
C8_OnlySixVariants ==
    /\ pc \in {"new", "ready", "failed"}
    /\ pc = "failed" => (error.msg.fmt # "" /\ tree.type = "<none>")
    /\ pc = "ready" =>
        /\ tree.type = "Expression"
        /\ OnlySixVariants(tree.body)
        /\ (~called /\ ~rendered) => SameNesting(Parse(expression).node.body, tree.body)
        /\ called => result.kind = "bool"

C8_Witness ==
    /\ pc = "ready" /\ called /\ result.kind = "bool"
    /\ tree.body.type = "BoolOp"
    /\ tree.body.values[1].type = "UnaryOp" /\ tree.body.values[1].operand.type = "BoolOp"
    /\ IsEmptinessCheck(tree.body.values[2])

\* C9: a call of a compiled matcher changes neither its expression nor its
\* tree, and its result on a collection is the result the first call gave on that
\* collection, whatever was evaluated in between.
C9_Stateless ==
    [][pc = "ready" =>
        /\ pc' = "ready"
        /\ expression' = expression
        /\ tree' = tree
        /\ (first.items.kind # "<none>" /\ SameItems(first.items, items')) =>
                (result'.kind = first.result.kind /\ result'.val = first.result.val)]_vars

C9_Witness ==
    /\ pc = "ready" /\ first.items.kind = "set" /\ items.kind = "text"
    /\ IsTrue(first.result) /\ IsFalse(result)

\* C10: when the rewriter fails at a node that no other rule matches, the
\* message is "invalid syntax" and the reported column is the node's 0-based
\* start offset plus exactly one.
C10_ColumnIsTheNodeStart ==
    (pc = "failed" /\ raisedAt.type # "<parser>"
        /\ ~IsCallOfName(raisedAt) /\ ~IsNameBinOp(raisedAt)) =>
        /\ error.msg.fmt = "invalid syntax"
        /\ error.offset = raisedAt.col_offset + 1

====
